---- MODULE Spec2Model ----
(***************************************************************************)
(* The tag editor of the toolbar (FileTagEditor.tsx) and the tag selector  *)
(* (TagSelector.tsx) as state machines: one action per event handler.      *)
(***************************************************************************)
EXTENDS Integers, Sequences, FiniteSets, Bags, TLC

\* ------------------------------------------------------------------ bounds
MaxFiles == 2    \* files of the gallery
MaxCreate == 2   \* tags created, or being created, in one run
RecentCap == 2   \* capacity of the queue of recently used tags

Files == 1 .. MaxFiles

\* Texts are tuples of characters. The texts typed into the tag editor.
Texts == {<<>>, <<"a">>, <<"b">>}
\* The texts typed while tags are created.
NewTagTexts == {<<>>, <<"b">>}

\* The catalog before any tag is created in the run.
InitialTagList == << [id |-> 1, name |-> <<"a">>], [id |-> 2, name |-> <<"A", "b">>] >>

VARIABLES
  tagList,                  \* tagStore.tagList: the catalog, a sequence of [id, name]
  recentTags,               \* uiStore.recentTags: tag ids, most recent first
  files,                    \* file -> the set of tag ids the file carries
  fileSelection,            \* uiStore.fileSelection: the target set
  isToolbarTagPopoverOpen,  \* uiStore.isToolbarTagPopoverOpen
  inputText,                \* TagEditor's inputText state
  shown,                    \* what the tag editor last rendered: text, rows, summary
  pending,                  \* createTag calls suspended at their await, a bag
  last,                     \* the last handler that ran, with what it saw and called
  isOpen,                   \* TagSelector's isOpen state
  query,                    \* TagSelector's query state
  selection,                \* TagSelector's selection prop: a sequence of tag ids
  focus,                    \* where the focus is: "input", "row" (of the flyout), "outside"
  lastSel,                  \* the last handler of the tag selector, with the calls it made
  suggested                 \* what SuggestedTagsList last rendered: rows, create option

evars == <<tagList, recentTags, files, fileSelection, isToolbarTagPopoverOpen,
           inputText, shown, pending>>

svars == <<isOpen, query, selection, focus, lastSel, suggested>>

\* ------------------------------------------------------------ pure helpers
TagIds(tl) == {tl[i].id : i \in 1 .. Len(tl)}

\* (mutant) the case is kept.
toLowerCaseKeeps(s) == s

\* String.prototype.toLowerCase, one character at a time.
toLowerCase(s) == [i \in 1 .. Len(s) |-> IF s[i] = "A" THEN "a" ELSE s[i]]

\* String.prototype.includes
includes(s, q) ==
  \E i \in 0 .. (Len(s) - Len(q)) : SubSeq(s, i + 1, i + Len(q)) = q

\* Array.prototype.indexOf: zero-based, -1 when absent.
indexOf(seq, x) ==
  IF \E i \in 1 .. Len(seq) : seq[i] = x
  THEN (CHOOSE i \in 1 .. Len(seq) : seq[i] = x /\ \A j \in 1 .. (i - 1) : seq[j] # x) - 1
  ELSE -1

\* (mutant) the comparator is the difference of the indexes, -1 for an absent id.
compareIndexes(a, b, recentIds) == indexOf(recentIds, a.id) - indexOf(recentIds, b.id)

\* The comparator handed to list.sort in matches / suggestions.
compareRecent(a, b, recentIds) ==
  LET ia == indexOf(recentIds, a.id)
      ib == indexOf(recentIds, b.id)
  IN IF ia = -1 /\ ib = -1 THEN 0
     ELSE IF ia = -1 THEN 1
     ELSE IF ib = -1 THEN -1
     ELSE ia - ib

\* Array.prototype.sort is stable: an element goes after those that compare <= 0 to it.
RECURSIVE sortInsert(_, _, _)
sortInsert(sorted, x, recentIds) ==
  IF sorted = <<>> THEN <<x>>
  ELSE IF compareRecent(Head(sorted), x, recentIds) <= 0
       THEN <<Head(sorted)>> \o sortInsert(Tail(sorted), x, recentIds)
       ELSE <<x>> \o sorted

RECURSIVE sortFrom(_, _, _)
sortFrom(list, sorted, recentIds) ==
  IF list = <<>> THEN sorted
  ELSE sortFrom(Tail(list), sortInsert(sorted, Head(list), recentIds), recentIds)

\* MatchingTagsList.matches: filter the catalog by the text, then sort by recency.
matches(text, tl, recentIds) ==
  LET textLower == toLowerCase(text)
      nameHas(t) == includes(toLowerCase(t.name), textLower)
      list == IF Len(text) = 0 THEN tl ELSE SelectSeq(tl, nameHas)
  IN sortFrom(list, <<>>, recentIds)

\* SuggestedTagsList.suggestions: the same filter and sort as matches.
suggestions(text, tl, recentIds) ==
  LET textLower == toLowerCase(text)
      nameHas(t) == includes(toLowerCase(t.name), textLower)
      list == IF Len(text) = 0 THEN tl ELSE SelectSeq(tl, nameHas)
  IN sortFrom(list, <<>>, recentIds)

\* TagEditor.counter: for every selected file, for every tag of it, count one more.
RECURSIVE countTagsOf(_, _)
countTagsOf(tags, counter) ==
  IF tags = {} THEN counter
  ELSE LET tag == CHOOSE t \in tags : TRUE
           count == IF tag \in DOMAIN counter THEN counter[tag] + 1 ELSE 1
       IN countTagsOf(tags \ {tag},
                      [t \in DOMAIN counter \cup {tag} |-> IF t = tag THEN count ELSE counter[t]])

RECURSIVE countFiles(_, _, _)
countFiles(selected, fs, counter) ==
  IF selected = {} THEN counter
  ELSE LET file == CHOOSE f \in selected : TRUE
       IN countFiles(selected \ {file}, fs, countTagsOf(fs[file], counter))

\* (mutant) every file is counted, selected or not.
counterAllFiles(fs, selected) == countFiles(DOMAIN fs, fs, <<>>)

counter(fs, selected) == countFiles(selected, fs, <<>>)

\* ----------------------------------------------------- external collaborators
\* uiStore.addRecentTag: move to front, no duplicate, truncated to the capacity.
addRecentTag(queue, id) ==
  LET rest == SelectSeq(queue, LAMBDA x : x # id)
      all == <<id>> \o rest
  IN SubSeq(all, 1, IF Len(all) > RecentCap THEN RecentCap ELSE Len(all))

\* ClientFile.addTag / removeTag on every file of a set.
addTagTo(fs, targets, tag) == [f \in DOMAIN fs |-> IF f \in targets THEN fs[f] \cup {tag} ELSE fs[f]]
removeTagFrom(fs, targets, tag) == [f \in DOMAIN fs |-> IF f \in targets THEN fs[f] \ {tag} ELSE fs[f]]

\* tagStore.create(root, name): a new tag with a fresh id at the end of the catalog.
createdTag(tl, name) == [id |-> Len(tl) + 1, name |-> name]

\* ------------------------------------------------------------------ render
\* What MatchingTagsList, CreateOption and TagSummary render from the stores.
renderEditor(text, tl, recentIds, fs, selected) ==
  LET m == matches(text, tl, recentIds)
      c == counter(fs, selected)
  IN [text |-> text,
      rows |-> [i \in 1 .. Len(m) |-> [tag |-> m[i].id, selected |-> m[i].id \in DOMAIN c]],
      summary |-> DOMAIN c]

Unmounted == [text |-> <<>>, rows |-> <<>>, summary |-> {}]

\* CreateOption of the tag editor: null for an empty text, the Create Tag row otherwise.
CreateOption(text) == Len(text) # 0

\* SuggestedTagsList: the create option is rendered when no suggestion is, by the
\* renderCreateOption the selector was mounted with.
renderCreateOption(list) == Len(list) = 0

\* What SuggestedTagsList renders from its props and the stores.
renderSuggestions(text, tl, recentIds, sel) ==
  LET list == suggestions(text, tl, recentIds)
  IN [rows |-> [i \in 1 .. Len(list) |->
                  [tag |-> list[i].id,
                   selected |-> \E k \in 1 .. Len(sel) : sel[k] = list[i].id]],
      createOption |-> renderCreateOption(list)]

\* The record of the handler that ran last (of those the properties look at): the tag
\* and flag it was called with, whether the rendering it was clicked in was current,
\* the count of the tag when it started, the calls it made.
NoLast == [act |-> "none", tag |-> 0, isSelected |-> FALSE, fresh |-> FALSE, before |-> 0,
           again |-> FALSE, touches |-> 0, calls |-> {}, captured |-> {},
           shiftKey |-> FALSE, propagationStopped |-> FALSE, defaultPrevented |-> FALSE]

Count(fs, selected, tag) == Cardinality({f \in selected : tag \in fs[f]})

\* The selections a tag selector is mounted with: tags of the catalog, none twice.
Selections ==
  LET ids == TagIds(InitialTagList)
  IN {<<>>} \cup {<<a>> : a \in ids} \cup {s \in ids \X ids : s[1] # s[2]}

NoLastSel == [act |-> "none", relatedTarget |-> "none", calls |-> <<>>, wasOpen |-> FALSE]

\* The tag selector is not mounted: SuggestedTagsList has rendered nothing.
NotRendered == [rows |-> <<>>, createOption |-> FALSE]

\* No tag selector is mounted.
SelectorIdle ==
  /\ isOpen = FALSE
  /\ query = <<>>
  /\ selection = <<>>
  /\ focus = "outside"
  /\ lastSel = NoLastSel
  /\ suggested = NotRendered

\* -------------------------------------------------------------------- Init
\* The tag editor has just been opened on a selection.
InitToggle ==
  /\ tagList = InitialTagList
  /\ recentTags = <<>>
  /\ files \in [Files -> SUBSET TagIds(InitialTagList)]
  /\ fileSelection \in (SUBSET Files) \ {{}}
  /\ isToolbarTagPopoverOpen = TRUE
  /\ inputText = <<>>
  /\ shown = renderEditor(<<>>, tagList, recentTags, files, fileSelection)
  /\ pending = EmptyBag
  /\ last = NoLast
  /\ SelectorIdle

\* The application has started: nothing is selected, the popover is closed.
InitCreate ==
  /\ tagList = InitialTagList
  /\ recentTags = <<>>
  /\ files = [f \in Files |-> {}]
  /\ fileSelection = {}
  /\ isToolbarTagPopoverOpen = FALSE
  /\ inputText = <<>>
  /\ shown = Unmounted
  /\ pending = EmptyBag
  /\ last = NoLast
  /\ SelectorIdle

\* The tag selector has mounted with some selection; the tag editor is closed.
InitSelector ==
  /\ tagList = InitialTagList
  /\ recentTags = <<>>
  /\ files = [f \in Files |-> {}]
  /\ fileSelection = {}
  /\ isToolbarTagPopoverOpen = FALSE
  /\ inputText = <<>>
  /\ shown = Unmounted
  /\ pending = EmptyBag
  /\ last = NoLast
  /\ isOpen = FALSE
  /\ query = <<>>
  /\ selection \in Selections
  /\ focus = "outside"
  /\ lastSel = NoLastSel
  /\ suggested = renderSuggestions(query, tagList, recentTags, selection)

\* ----------------------------------------------------------- the tag editor
\* (mutant) the operation reaches one file of the selection only.
toggleOperationOneFile(isSelected, fs, targets, tag) ==
  LET one == IF targets = {} THEN {} ELSE {CHOOSE f \in targets : TRUE}
  IN IF isSelected THEN removeTagFrom(fs, one, tag) ELSE addTagTo(fs, one, tag)

\* toggleSelection: the operation applied to every file of the selection.
toggleOperation(isSelected, fs, targets, tag) ==
  IF isSelected THEN removeTagFrom(fs, targets, tag) ELSE addTagTo(fs, targets, tag)

\* toggleSelection: the calls of addTag / removeTag it makes.
toggleCalls(isSelected, targets) ==
  {[op |-> IF isSelected THEN "remove" ELSE "add", file |-> f] : f \in targets}

\* (mutant) addRecentTag called inside the loop over the files.
toggleTouchesPerFile(isSelected, targets) == IF ~isSelected THEN Cardinality(targets) ELSE 0

\* toggleSelection: how many times it calls uiStore.addRecentTag.
toggleTouches(isSelected, targets) == IF ~isSelected THEN 1 ELSE 0

RECURSIVE touchTimes(_, _, _)
touchTimes(queue, id, n) ==
  IF n = 0 THEN queue ELSE touchTimes(addRecentTag(queue, id), id, n - 1)

\* The tag editor shows what it would render now.
IsCurrent == shown = renderEditor(inputText, tagList, recentTags, files, fileSelection)

\* handleInput: the text of the input changed.
handleInput(value) ==
  /\ UNCHANGED svars
  /\ isToolbarTagPopoverOpen
  /\ value # inputText
  /\ inputText' = value
  /\ shown' = renderEditor(value, tagList, recentTags, files, fileSelection)
  /\ last' = NoLast
  /\ UNCHANGED <<tagList, recentTags, files, fileSelection, isToolbarTagPopoverOpen,
                 pending>>

\* A click on the i-th rendered row: TagOption calls toggleSelection(selected, tag)
\* with the flag the row was rendered with; resetTextBox clears the text.
toggleSelection(i) ==
  /\ UNCHANGED svars
  /\ isToolbarTagPopoverOpen
  /\ i \in 1 .. Len(shown.rows)
  /\ LET isSelected == shown.rows[i].selected
         tag == shown.rows[i].tag
         touches == toggleTouches(isSelected, fileSelection)
     IN /\ recentTags' = touchTimes(recentTags, tag, touches)
        /\ files' = toggleOperation(isSelected, files, fileSelection, tag)
        /\ inputText' = <<>>
        /\ shown' = renderEditor(<<>>, tagList, recentTags', files', fileSelection)
        /\ last' = [act |-> "toggle", tag |-> tag, isSelected |-> isSelected,
                    fresh |-> IsCurrent,
                    before |-> Count(files, fileSelection, tag),
                    again |-> (last.act = "toggle" /\ last.tag = tag),
                    touches |-> touches,
                    calls |-> toggleCalls(isSelected, fileSelection),
                    captured |-> {},
                    shiftKey |-> FALSE, propagationStopped |-> FALSE,
                    defaultPrevented |-> FALSE]
  /\ UNCHANGED <<tagList, fileSelection, isToolbarTagPopoverOpen, pending>>

\* TagSummary's remove button of a tag it shows: removeTag(tag).
removeTag(tag) ==
  /\ UNCHANGED svars
  /\ isToolbarTagPopoverOpen
  /\ tag \in shown.summary
  /\ files' = removeTagFrom(files, fileSelection, tag)
  /\ shown' = renderEditor(inputText, tagList, recentTags, files', fileSelection)
  /\ last' = [act |-> "remove", tag |-> tag, isSelected |-> TRUE,
              fresh |-> IsCurrent,
              before |-> Count(files, fileSelection, tag), again |-> FALSE,
              touches |-> 0,
              calls |-> {[op |-> "remove", file |-> f] : f \in fileSelection},
              captured |-> {},
              shiftKey |-> FALSE, propagationStopped |-> FALSE, defaultPrevented |-> FALSE]
  /\ UNCHANGED <<tagList, recentTags, fileSelection, isToolbarTagPopoverOpen, inputText,
                 pending>>

\* createTag up to its await: tagStore.create is called with the text CreateOption
\* was rendered with. The record keeps the selection of that moment.
createTag ==
  /\ UNCHANGED svars
  /\ isToolbarTagPopoverOpen
  /\ Len(shown.text) # 0
  /\ (Len(tagList) - Len(InitialTagList)) + BagCardinality(pending) < MaxCreate
  /\ pending' = pending (+) SetToBag({[text |-> shown.text, live |-> TRUE,
                                       captured |-> fileSelection]})
  /\ last' = NoLast
  /\ UNCHANGED <<tagList, recentTags, files, fileSelection, isToolbarTagPopoverOpen,
                 inputText, shown>>

\* (mutant) the rest of createTag runs whatever became of the promise.
resumesAlways(fulfilled) == TRUE

\* await: the rest of createTag runs only when the promise is fulfilled.
resumesAfterAwait(fulfilled) == fulfilled

\* The files createTag adds the new tag to: uiStore.fileSelection, read after the await.
createTagTargets(request, selected) == selected

\* createTag from its await on, for one of the suspended calls.
createTagSettled(request, fulfilled) ==
  /\ UNCHANGED svars
  /\ BagIn(request, pending)
  /\ LET newTag == createdTag(tagList, request.text)
         targets == createTagTargets(request, fileSelection)
     IN /\ pending' = pending (-) SetToBag({request})
        /\ tagList' = IF fulfilled THEN Append(tagList, newTag) ELSE tagList
        /\ IF resumesAfterAwait(fulfilled)
           THEN /\ files' = addTagTo(files, targets, newTag.id)
                /\ recentTags' = addRecentTag(recentTags, newTag.id)
                /\ inputText' = IF request.live THEN <<>> ELSE inputText
           ELSE UNCHANGED <<files, recentTags, inputText>>
        /\ last' = IF fulfilled
                   THEN [NoLast EXCEPT !.act = "created", !.tag = newTag.id,
                                       !.captured = request.captured]
                   ELSE [NoLast EXCEPT !.act = "rejected"]
  /\ UNCHANGED <<fileSelection, isToolbarTagPopoverOpen, shown>>

\* The observers re-render after a change made outside one of their own handlers.
renderTagEditor ==
  /\ UNCHANGED svars
  /\ isToolbarTagPopoverOpen
  /\ ~IsCurrent
  /\ shown' = renderEditor(inputText, tagList, recentTags, files, fileSelection)
  /\ last' = NoLast
  /\ UNCHANGED <<tagList, recentTags, files, fileSelection, isToolbarTagPopoverOpen,
                 inputText, pending>>

\* The gallery adds a file to the selection or takes one out of it.
changeFileSelection(file) ==
  /\ UNCHANGED svars
  /\ fileSelection' = IF file \in fileSelection THEN fileSelection \ {file}
                      ELSE fileSelection \cup {file}
  /\ last' = NoLast
  /\ UNCHANGED <<tagList, recentTags, files, isToolbarTagPopoverOpen, inputText, shown,
                 pending>>

\* A suspended createTag whose TagEditor has unmounted: its resetTextBox does nothing.
unmountedRequests(bag) ==
  LET dead(r) == [r EXCEPT !.live = FALSE]
      kinds == {dead(r) : r \in BagToSet(bag)}
  IN [k \in kinds |->
        (IF BagIn(k, bag) THEN bag[k] ELSE 0)
        + (IF BagIn([k EXCEPT !.live = TRUE], bag) THEN bag[[k EXCEPT !.live = TRUE]] ELSE 0)]

\* uiStore.closeToolbarTagPopover: TagEditor unmounts and its state is gone.
closeToolbarTagPopover ==
  /\ isToolbarTagPopoverOpen' = FALSE
  /\ inputText' = <<>>
  /\ shown' = Unmounted
  /\ pending' = unmountedRequests(pending)
  /\ UNCHANGED <<tagList, recentTags, files, fileSelection>>

\* The toolbar button (disabled while nothing is selected and the popover is closed).
toggleToolbarTagPopover ==
  /\ UNCHANGED svars
  /\ ~(Cardinality(fileSelection) = 0 /\ ~isToolbarTagPopoverOpen)
  /\ IF isToolbarTagPopoverOpen
     THEN closeToolbarTagPopover
     ELSE /\ isToolbarTagPopoverOpen' = TRUE
          /\ inputText' = <<>>
          /\ shown' = renderEditor(<<>>, tagList, recentTags, files, fileSelection)
          /\ UNCHANGED <<tagList, recentTags, files, fileSelection, pending>>
  /\ last' = NoLast

\* FloatingPanel.handleBlur: focus left for the button, for an element of the panel,
\* or for anything else.
FloatingPanel_handleBlur(relatedTarget) ==
  /\ UNCHANGED svars
  /\ isToolbarTagPopoverOpen
  /\ IF relatedTarget # "button" /\ relatedTarget # "inside"
     THEN closeToolbarTagPopover
     ELSE UNCHANGED evars
  /\ last' = NoLast

\* FloatingPanel.handleKeyDown
FloatingPanel_handleKeyDown(key) ==
  /\ UNCHANGED svars
  /\ isToolbarTagPopoverOpen
  /\ IF key = "Escape" THEN closeToolbarTagPopover ELSE UNCHANGED evars
  /\ last' = NoLast

vars == <<tagList, recentTags, files, fileSelection, isToolbarTagPopoverOpen,
          inputText, shown, pending, last, isOpen, query, selection, focus,
          lastSel, suggested>>

\* Toggling and removing tags of the selected files in the open tag editor.
NextToggle ==
  \/ \E value \in Texts : handleInput(value)
  \/ \E i \in 1 .. Len(shown.rows) : toggleSelection(i)
  \/ \E tag \in shown.summary : removeTag(tag)
  \/ renderTagEditor
  \/ \E file \in Files : changeFileSelection(file)

SpecToggle == InitToggle /\ [][NextToggle]_vars

\* Creating tags from the tag editor, which opens and closes.
NextCreate ==
  \/ \E value \in NewTagTexts : handleInput(value)
  \/ createTag
  \/ \E request \in BagToSet(pending), fulfilled \in BOOLEAN : createTagSettled(request, fulfilled)
  \/ renderTagEditor
  \/ \E file \in Files : changeFileSelection(file)
  \/ toggleToolbarTagPopover
  \/ \E relatedTarget \in {"button", "inside", "outside"} : FloatingPanel_handleBlur(relatedTarget)
  \/ \E key \in {"Escape", "Enter"} : FloatingPanel_handleKeyDown(key)

SpecCreate == InitCreate /\ [][NextCreate]_vars

\* ---------------------------------------------------------- the tag selector
\* The owner of the tag selector: onSelect, onDeselect and onClear update the selection.
onSelect(sel, tag) == IF \E i \in 1 .. Len(sel) : sel[i] = tag THEN sel ELSE Append(sel, tag)
onDeselect(sel, tag) == SelectSeq(sel, LAMBDA x : x # tag)
onClear(sel) == <<>>

RECURSIVE applyCalls(_, _)
applyCalls(sel, calls) ==
  IF calls = <<>> THEN sel
  ELSE applyCalls(IF Head(calls).op = "select" THEN onSelect(sel, Head(calls).tag)
                  ELSE onDeselect(sel, Head(calls).tag),
                  Tail(calls))

\* handleChange
TagSelector_handleChange(value) ==
  /\ focus = "input"
  /\ value # query
  /\ isOpen' = TRUE
  /\ query' = value
  /\ lastSel' = [NoLastSel EXCEPT !.act = "change", !.wasOpen = isOpen]
  /\ UNCHANGED <<selection, focus>>
  /\ suggested' = renderSuggestions(query', tagList, recentTags, selection')
  /\ UNCHANGED <<evars, last>>

\* clearSelection: the Clear button.
clearSelection ==
  /\ query' = <<>>
  /\ selection' = onClear(selection)
  /\ lastSel' = [NoLastSel EXCEPT !.act = "clear"]
  /\ UNCHANGED <<isOpen, focus>>
  /\ suggested' = renderSuggestions(query', tagList, recentTags, selection')
  /\ UNCHANGED <<evars, last>>

\* (mutant) Backspace takes the first item of the selection.
backspaceItemFirst(sel) == sel[1]

\* handleKeyDown, Backspace: the item of the selection handed to onDeselect.
backspaceItem(sel) == sel[Len(sel)]

\* handleKeyDown, Backspace: the calls of onDeselect.
backspaceCalls(q, sel) ==
  IF Len(q) = 0 /\ Len(sel) > 0 THEN <<[op |-> "deselect", tag |-> backspaceItem(sel)]>>
  ELSE <<>>

\* (mutant) Escape closes and leaves the query.
escapeKeepsQuery(st) == [st EXCEPT !.isOpen = FALSE]

\* handleKeyDown, Escape: setQuery(''), setIsOpen(false).
escapeState(st) == [isOpen |-> FALSE, query |-> <<>>]

\* handleKeyDown of the text input; any other key goes to handleGridFocus.
TagSelector_handleKeyDown(key) ==
  /\ focus = "input"
  /\ IF key = "Backspace"
     THEN /\ selection' = applyCalls(selection, backspaceCalls(query, selection))
          /\ lastSel' = [NoLastSel EXCEPT !.act = key, !.calls = backspaceCalls(query, selection)]
          /\ UNCHANGED <<isOpen, query>>
     ELSE IF key = "Escape"
     THEN /\ query' = escapeState([isOpen |-> isOpen, query |-> query]).query
          /\ isOpen' = escapeState([isOpen |-> isOpen, query |-> query]).isOpen
          /\ lastSel' = [NoLastSel EXCEPT !.act = key, !.wasOpen = isOpen]
          /\ UNCHANGED selection
     ELSE /\ lastSel' = [NoLastSel EXCEPT !.act = key]
          /\ UNCHANGED <<isOpen, query, selection>>
  /\ UNCHANGED focus
  /\ suggested' = renderSuggestions(query', tagList, recentTags, selection')
  /\ UNCHANGED <<evars, last>>

\* The elements the focus can move to: relatedTarget of the blur event.
isHTMLElement(target) == target \in {"input", "row", "other"}
matchesRow(target) == target = "row"

\* (mutant) handleBlur returns early for the text input only.
blurKeepsOpenInputOnly(relatedTarget) == relatedTarget = "input"

\* handleBlur: the test that makes it return early.
blurKeepsOpen(relatedTarget) ==
  LET isFocusingOption == isHTMLElement(relatedTarget) /\ matchesRow(relatedTarget)
  IN isFocusingOption \/ relatedTarget = "input"

\* handleBlur: the [isOpen, query] it leaves.
handleBlur(relatedTarget, st) ==
  IF blurKeepsOpen(relatedTarget) THEN st ELSE [isOpen |-> FALSE, query |-> <<>>]

\* (mutant) the focus of the text input opens nothing.
handleFocusKeeps(st) == st

\* handleFocus
handleFocus(st) == [st EXCEPT !.isOpen = TRUE]

\* The focus moves: onBlur of the combobox when it leaves an element inside it, then
\* onFocus of the text input when that is where it goes.
moveFocus(to) ==
  /\ to # focus
  /\ focus = "outside" => to \in {"input", "row"}
  /\ to = "row" => isOpen
  /\ LET inside == focus \in {"input", "row"}
         st == [isOpen |-> isOpen, query |-> query]
         blurred == IF inside THEN handleBlur(to, st) ELSE st
         focused == IF to = "input" THEN handleFocus(blurred) ELSE blurred
     IN /\ isOpen' = focused.isOpen
        /\ query' = focused.query
        /\ lastSel' = [NoLastSel EXCEPT !.act = IF inside THEN "blur" ELSE "focus",
                                       !.relatedTarget = to,
                                       !.wasOpen = IF to = "input" THEN isOpen ELSE FALSE]
  /\ focus' = IF to \in {"input", "row"} THEN to ELSE "outside"
  /\ UNCHANGED selection
  /\ suggested' = renderSuggestions(query', tagList, recentTags, selection')
  /\ UNCHANGED <<evars, last>>

\* (mutant) toggleSelection calls onSelect whatever the row showed.
toggleIntentsSelectOnly(isSelected, tag) == <<[op |-> "select", tag |-> tag]>>

\* toggleSelection of the tag selector: the calls of onSelect / onDeselect.
toggleIntents(isSelected, tag) ==
  <<[op |-> IF ~isSelected THEN "select" ELSE "deselect", tag |-> tag]>>

\* toggleSelection of the tag selector, from the row of a suggestion; resetTextBox
\* focuses the text input and clears the query.
TagSelector_toggleSelection(tag) ==
  /\ isOpen
  /\ \E i \in 1 .. Len(suggested.rows) : suggested.rows[i].tag = tag
  /\ LET row == suggested.rows[CHOOSE i \in 1 .. Len(suggested.rows) :
                                suggested.rows[i].tag = tag]
         isSelected == row.selected
         calls == toggleIntents(isSelected, tag)
     IN /\ selection' = applyCalls(selection, calls)
        /\ lastSel' = [NoLastSel EXCEPT !.act = "toggle", !.calls = calls, !.wasOpen = isOpen]
  /\ focus' = "input"
  /\ isOpen' = IF focus # "input" THEN handleFocus([isOpen |-> isOpen, query |-> query]).isOpen
               ELSE isOpen
  /\ query' = <<>>
  /\ suggested' = renderSuggestions(query', tagList, recentTags, selection')
  /\ UNCHANGED <<evars, last>>

\* SelectedTag: the remove button of a selected tag.
SelectedTag_onRemove(tag) ==
  /\ \E i \in 1 .. Len(selection) : selection[i] = tag
  /\ selection' = onDeselect(selection, tag)
  /\ lastSel' = [NoLastSel EXCEPT !.act = "remove",
                                 !.calls = <<[op |-> "deselect", tag |-> tag]>>]
  /\ UNCHANGED <<isOpen, query, focus>>
  /\ suggested' = renderSuggestions(query', tagList, recentTags, selection')
  /\ UNCHANGED <<evars, last>>

\* The cancel callback handed to Flyout.
Flyout_cancel ==
  /\ isOpen
  /\ isOpen' = FALSE
  /\ focus' = IF focus = "row" THEN "outside" ELSE focus
  /\ lastSel' = [NoLastSel EXCEPT !.act = "cancel"]
  /\ UNCHANGED <<query, selection>>
  /\ suggested' = renderSuggestions(query', tagList, recentTags, selection')
  /\ UNCHANGED <<evars, last>>

NextSelector ==
  \/ \E value \in Texts : TagSelector_handleChange(value)
  \/ clearSelection
  \/ \E key \in {"Backspace", "Escape", "ArrowDown"} : TagSelector_handleKeyDown(key)
  \/ \E to \in {"input", "row", "other", "svg", "none"} : moveFocus(to)
  \/ \E tag \in TagIds(tagList) : TagSelector_toggleSelection(tag)
  \/ \E tag \in TagIds(tagList) : SelectedTag_onRemove(tag)
  \/ Flyout_cancel

SpecSelector == InitSelector /\ [][NextSelector]_vars

\* ------------------------------------------ the suggestion lists, any catalog
\* The tags catalogs are made of: those of the initial catalog and a third one.
TagPool == {InitialTagList[1], InitialTagList[2], [id |-> 3, name |-> <<"b", "a">>]}

\* tagStore.tagList: the tags of the pool, none twice, in any order; the empty catalog.
Catalogs ==
  {<<>>} \cup {<<t>> : t \in TagPool}
  \cup {s \in TagPool \X TagPool : s[1] # s[2]}
  \cup {s \in TagPool \X TagPool \X TagPool : s[1] # s[2] /\ s[1] # s[3] /\ s[2] # s[3]}

\* The ids a queue of recent tags holds: those of the pool and the id of a deleted tag.
QueueIds == {t.id : t \in TagPool} \cup {Cardinality(TagPool) + 1}

\* uiStore.recentTags: ids, none twice, up to the capacity.
Queues ==
  {q \in UNION {[1 .. n -> QueueIds] : n \in 0 .. RecentCap} :
     \A i, j \in 1 .. Len(q) : i # j => q[i] # q[j]}

\* The texts typed into either widget.
SuggestTexts == Texts \cup {<<"A">>, <<"a", "b">>}

\* (mutant) for an empty text list is the catalog itself: tagList without slice().
listArrayNoSlice(text) == IF Len(text) = 0 THEN "catalog" ELSE "list"

\* The array `list` names: slice() and filter() both return a new array.
listArray(text) == "list"

\* One evaluation of matches / suggestions on the arrays it reads and writes: the
\* catalog of the store and list; list.sort sorts the array list names, in place.
sortedArrays(text, tl, recentIds) ==
  LET textLower == toLowerCase(text)
      nameHas(t) == includes(toLowerCase(t.name), textLower)
      arrays == [catalog |-> tl,
                 list |-> IF Len(text) = 0 THEN tl ELSE SelectSeq(tl, nameHas)]
      ref == listArray(text)
  IN [arrays EXCEPT ![ref] = sortFrom(arrays[ref], <<>>, recentIds)]

\* The computed of MatchingTagsList is evaluated again and the rows rendered from it.
MatchingTagsList_matches ==
  /\ UNCHANGED svars
  /\ isToolbarTagPopoverOpen
  /\ LET arrays == sortedArrays(inputText, tagList, recentTags)
         list == arrays[listArray(inputText)]
         c == counter(files, fileSelection)
     IN /\ tagList' = arrays.catalog
        /\ shown' = [text |-> inputText,
                     rows |-> [i \in 1 .. Len(list) |->
                                 [tag |-> list[i].id, selected |-> list[i].id \in DOMAIN c]],
                     summary |-> DOMAIN c]
  /\ last' = [NoLast EXCEPT !.act = "matches"]
  /\ UNCHANGED <<recentTags, files, fileSelection, isToolbarTagPopoverOpen, inputText,
                 pending>>

\* The computed of SuggestedTagsList is evaluated again and the rows rendered from it.
SuggestedTagsList_suggestions ==
  /\ LET arrays == sortedArrays(query, tagList, recentTags)
         list == arrays[listArray(query)]
     IN /\ tagList' = arrays.catalog
        /\ suggested' = [rows |-> [i \in 1 .. Len(list) |->
                                     [tag |-> list[i].id,
                                      selected |-> \E k \in 1 .. Len(selection) :
                                                     selection[k] = list[i].id]],
                         createOption |-> renderCreateOption(list)]
  /\ lastSel' = [NoLastSel EXCEPT !.act = "suggestions"]
  /\ UNCHANGED <<isOpen, query, selection, focus>>
  /\ UNCHANGED <<recentTags, files, fileSelection, isToolbarTagPopoverOpen, inputText,
                 shown, pending, last>>

\* (mutant) the arrows without Shift stop the propagation as well.
keyDownCallsSwallow(key, shiftKey) ==
  IF key \in {"Backspace", "ArrowLeft", "ArrowRight"}
  THEN IF key # "Backspace" /\ ~shiftKey THEN {"stopPropagation", "preventDefault"}
       ELSE {"stopPropagation"}
  ELSE {}

\* handleKeyDown of the tag editor: the methods of the event it calls.
keyDownCalls(key, shiftKey) ==
  (IF key = "Backspace" THEN {"stopPropagation"} ELSE {})
  \cup (IF key = "ArrowLeft" \/ key = "ArrowRight"
        THEN IF shiftKey THEN {"stopPropagation"} ELSE {"preventDefault"}
        ELSE {})

\* handleKeyDown of the text input of the tag editor; handleGridFocus, which it ends
\* with, moves the active row, which is not part of this state.
handleKeyDown(key, shiftKey) ==
  /\ UNCHANGED svars
  /\ isToolbarTagPopoverOpen
  /\ last' = [NoLast EXCEPT !.act = key, !.shiftKey = shiftKey,
                            !.propagationStopped = "stopPropagation" \in keyDownCalls(key, shiftKey),
                            !.defaultPrevented = "preventDefault" \in keyDownCalls(key, shiftKey)]
  /\ UNCHANGED evars

\* Either the tag editor is open on all the files, or a tag selector is mounted.
InitSuggest ==
  /\ tagList \in Catalogs
  /\ recentTags \in Queues
  /\ files = [f \in Files |-> {}]
  /\ isToolbarTagPopoverOpen \in BOOLEAN
  /\ fileSelection = IF isToolbarTagPopoverOpen THEN Files ELSE {}
  /\ inputText = <<>>
  /\ shown = IF isToolbarTagPopoverOpen
             THEN renderEditor(<<>>, tagList, recentTags, files, fileSelection)
             ELSE Unmounted
  /\ pending = EmptyBag
  /\ last = NoLast
  /\ isOpen = FALSE
  /\ query = <<>>
  /\ selection = <<>>
  /\ focus = "outside"
  /\ lastSel = NoLastSel
  /\ suggested = IF isToolbarTagPopoverOpen THEN NotRendered
                 ELSE renderSuggestions(<<>>, tagList, recentTags, <<>>)

\* While the popover of the tag editor is open the focus is inside it (FloatingPanel
\* closes it when the focus leaves), so the tag selector gets events only when it is
\* closed.
NextSuggest ==
  \/ \E value \in SuggestTexts : handleInput(value)
  \/ MatchingTagsList_matches
  \/ \E key \in {"Backspace", "ArrowLeft", "ArrowRight", "ArrowDown"}, shiftKey \in BOOLEAN :
       handleKeyDown(key, shiftKey)
  \/ ~isToolbarTagPopoverOpen /\ \E value \in SuggestTexts : TagSelector_handleChange(value)
  \/ ~isToolbarTagPopoverOpen /\ \E to \in {"input", "row", "other", "svg", "none"} : moveFocus(to)
  \/ ~isToolbarTagPopoverOpen /\ SuggestedTagsList_suggestions

SpecSuggest == InitSuggest /\ [][NextSuggest]_vars

Next == NextToggle \/ NextCreate \/ NextSelector \/ NextSuggest

Spec == InitCreate /\ [][Next]_vars

\* ------------------------------------------------------------- properties
SelectionSize == Cardinality(fileSelection)
CountNow(tag) == Count(files, fileSelection, tag)
Owners(tag) == {f \in Files : tag \in files[f]}

TwoToggles == last.act = "toggle" /\ last'.act = "toggle" /\ last'.tag = last.tag
               /\ SelectionSize >= 1

C3_RejectedCreationChangesNothing ==
  [][/\ last'.act = "rejected" =>
          files' = files /\ recentTags' = recentTags /\ inputText' = inputText
     /\ \A f \in Files : \A t \in files'[f] \ files[f] :
          /\ last'.act = "created" /\ t = last'.tag
          /\ t \notin TagIds(tagList) /\ t \in TagIds(tagList')]_vars

\* C3 witness: a creation was rejected with files selected and a text in the input.
C3_Witness ==
  /\ last.act = "rejected" /\ fileSelection # {} /\ Len(inputText) > 0
  /\ \A f \in Files : files[f] = {}

\* C4 (as stated): no two suspended creations are for the same text.
C4_OneCreationPerText ==
  \A r \in BagToSet(pending) :
    /\ pending[r] <= 1
    /\ \A q \in BagToSet(pending) : q.text = r.text => q = r

\* C5 (as stated): the files that carry a tag just created are the files that were
\* selected when its creation was requested.
C5_AppliedToCapturedTargets ==
  last.act = "created" => Owners(last.tag) = last.captured

\* C6 (as stated): a toggle on an empty selection calls no addTag or removeTag and does
\* not call addRecentTag.
C6_EmptySelectionNoop ==
  (last.act = "toggle" /\ fileSelection = {}) => (last.calls = {} /\ last.touches = 0)

\* C7: a toggle that adds calls addRecentTag once, with the tag's id, for any number of
\* targets; a toggle that removes, and removeTag, leave the queue as it was.
C7_TouchOnceOnAdd ==
  [][/\ (last'.act = "toggle" /\ ~last'.isSelected) =>
          last'.touches = 1 /\ recentTags' = addRecentTag(recentTags, last'.tag)
     /\ ((last'.act = "toggle" /\ last'.isSelected) \/ last'.act = "remove") =>
          last'.touches = 0 /\ recentTags' = recentTags]_vars

\* C7 witness: an adding toggle on two or more targets, the tag now first in the queue.
C7_Witness ==
  /\ last.act = "toggle" /\ ~last.isSelected /\ SelectionSize >= 2
  /\ last.touches = 1 /\ recentTags # <<>> /\ Head(recentTags) = last.tag

\* C8 (as stated): a toggle removes exactly when, at the moment it is applied, some
\* target of the selection owns the tag.
C8_DecidesOnCurrentMembership ==
  last.act = "toggle" => (last.isSelected <=> last.before > 0)

\* C9: a blur of the open tag selector towards a suggestion row or the text input leaves
\* it open with its query; a blur towards anything else, or nothing, closes it and
\* clears the query.
C9_BlurBoundary ==
  [][(lastSel'.act = "blur" /\ isOpen) =>
       IF lastSel'.relatedTarget \in {"row", "input"}
       THEN isOpen' /\ query' = query
       ELSE ~isOpen' /\ query' = <<>>]_vars

\* C9 witness: the open selector, with a query, lost the focus to a row and is open.
C9_Witness ==
  /\ lastSel.act = "blur" /\ lastSel.relatedTarget = "row"
  /\ isOpen /\ Len(query) > 0

\* C10: Backspace with an empty query and a non-empty selection calls onDeselect once,
\* with the last item of the selection, open or closed; otherwise it calls nothing; it
\* never changes isOpen.
C10_BackspaceRemovesLast ==
  [][lastSel'.act = "Backspace" =>
       /\ isOpen' = isOpen
       /\ IF Len(query) = 0 /\ Len(selection) > 0
          THEN /\ lastSel'.calls = <<[op |-> "deselect", tag |-> selection[Len(selection)]]>>
               /\ selection' = SubSeq(selection, 1, Len(selection) - 1)
          ELSE lastSel'.calls = <<>> /\ selection' = selection]_vars

\* C10 witness: Backspace in the closed selector took the last of two selected tags.
C10_Witness ==
  /\ lastSel.act = "Backspace" /\ Len(lastSel.calls) = 1
  /\ ~isOpen /\ Len(selection) = 1 /\ selection[1] # lastSel.calls[1].tag

\* ------------------------------------------- properties of the suggestion lists
RowIds(rows) == [i \in 1 .. Len(rows) |-> rows[i].tag]
InQueue(id) == \E k \in 1 .. Len(recentTags) : recentTags[k] = id
QueuePos(id) == CHOOSE k \in 1 .. Len(recentTags) : recentTags[k] = id
CatalogPos(id) == CHOOSE k \in 1 .. Len(tagList) : tagList[k].id = id

OrderedByRecency(ids) ==
  /\ \A i, j \in 1 .. Len(ids) : i < j =>
        /\ InQueue(ids[j]) => InQueue(ids[i])
        /\ (InQueue(ids[i]) /\ InQueue(ids[j])) => QueuePos(ids[i]) < QueuePos(ids[j])
        /\ (~InQueue(ids[i]) /\ ~InQueue(ids[j])) => CatalogPos(ids[i]) < CatalogPos(ids[j])
  /\ recentTags = <<>> =>
        \A i, j \in 1 .. Len(ids) : i < j => CatalogPos(ids[i]) < CatalogPos(ids[j])

\* C11: in the list of either widget the tags of the queue of recent tags come before
\* the others and in the order of the queue, the others keep the order of the catalog;
\* with an empty queue the list is in the order of the catalog.
C11_OrderedByRecency ==
  /\ isToolbarTagPopoverOpen => OrderedByRecency(RowIds(shown.rows))
  /\ ~isToolbarTagPopoverOpen => OrderedByRecency(RowIds(suggested.rows))

\* C11 witness: a typed text matched three tags; the first two are in the queue, in its
\* order and against the order of the catalog, the third is not in the queue.
C11_Witness ==
  /\ lastSel.act = "change" /\ Len(query) > 0
  /\ Len(suggested.rows) = 3 /\ Len(recentTags) = 2
  /\ InQueue(suggested.rows[1].tag) /\ InQueue(suggested.rows[2].tag)
  /\ ~InQueue(suggested.rows[3].tag)
  /\ CatalogPos(suggested.rows[1].tag) > CatalogPos(suggested.rows[2].tag)

SameLetter(c, d) == c = d \/ {c, d} = {"a", "A"}
ContainsIgnoringCase(name, text) ==
  \E k \in 0 .. (Len(name) - Len(text)) :
    \A j \in 1 .. Len(text) : SameLetter(name[k + j], text[j])
Matching(text) ==
  {tagList[n].id : n \in {k \in 1 .. Len(tagList) : ContainsIgnoringCase(tagList[k].name, text)}}
ExactlyMatching(ids, text) ==
  /\ {ids[i] : i \in 1 .. Len(ids)} = Matching(text)
  /\ Len(ids) = Cardinality(Matching(text))

\* C12: the tags listed by either widget are the tags of the catalog whose name contains
\* the text, case ignored (all of them for an empty text), each once, and nothing else.
C12_ExactlyTheMatches ==
  /\ isToolbarTagPopoverOpen => ExactlyMatching(RowIds(shown.rows), shown.text)
  /\ ~isToolbarTagPopoverOpen => ExactlyMatching(RowIds(suggested.rows), query)

\* C12 witness: "ab" typed into the tag editor over a catalog of three lists the one tag
\* "Ab", while the queue holds the id of a tag the catalog does not have.
C12_Witness ==
  /\ isToolbarTagPopoverOpen /\ shown.text = <<"a", "b">>
  /\ Len(tagList) = 3 /\ Len(shown.rows) = 1
  /\ \E k \in 1 .. Len(recentTags) : recentTags[k] \notin TagIds(tagList)

\* C13: an evaluation of matches or suggestions leaves the catalog and the queue of
\* recent tags as they were and, the inputs being those of the last rendering, renders
\* the same rows again.
C13_ComputationIsPure ==
  [][/\ last'.act = "matches" =>
          tagList' = tagList /\ recentTags' = recentTags /\ shown' = shown
     /\ lastSel'.act = "suggestions" =>
          tagList' = tagList /\ recentTags' = recentTags /\ suggested' = suggested]_vars

\* C13 witness: matches evaluated for an empty text listed three tags in another order
\* than the catalog's, which is as it was.
C13_Witness ==
  /\ last.act = "matches" /\ inputText = <<>>
  /\ Len(shown.rows) = 3
  /\ RowIds(shown.rows) # [i \in 1 .. Len(tagList) |-> tagList[i].id]

\* C14: the counter has an entry exactly for the tags some selected file carries, and
\* the entry is the number of selected files that carry the tag: from 1 to the number of
\* selected files.
C14_CounterOfSelection ==
  LET c == counter(files, fileSelection)
  IN /\ DOMAIN c = UNION {files[f] : f \in fileSelection}
     /\ \A tag \in DOMAIN c :
          /\ c[tag] = Cardinality({f \in fileSelection : tag \in files[f]})
          /\ 1 <= c[tag] /\ c[tag] <= SelectionSize

\* C14 witness: after a remove, of two selected files one carries a tag, counted 1, and
\* the tag removed has no entry.
C14_Witness ==
  /\ last.act = "remove" /\ SelectionSize = 2
  /\ last.tag \notin DOMAIN counter(files, fileSelection)
  /\ \E t \in TagIds(tagList) :
       /\ t \in DOMAIN counter(files, fileSelection)
       /\ counter(files, fileSelection)[t] = 1

\* C15: the tag selector starts closed with an empty query; a change of the text, or the
\* focus entering the text input, in the closed selector opens it.
C15_ClosedOpens ==
  /\ ~isOpen /\ query = <<>>
  /\ [][(/\ ~isOpen
         /\ \/ lastSel'.act = "change"
            \/ lastSel'.act \in {"focus", "blur"} /\ lastSel'.relatedTarget = "input")
        => isOpen']_vars

\* C15 witness: a text was typed into the closed selector, which is open with it.
C15_Witness ==
  /\ lastSel.act = "change" /\ ~lastSel.wasOpen
  /\ isOpen /\ Len(query) > 0

\* C16: Escape in the open selector closes it and clears the query; it calls neither
\* onSelect nor onDeselect and the selection is as it was.
C16_EscapeCloses ==
  [][(lastSel'.act = "Escape" /\ isOpen) =>
       /\ ~isOpen' /\ query' = <<>>
       /\ lastSel'.calls = <<>> /\ selection' = selection]_vars

\* C16 witness: Escape was pressed in the open selector with tags selected; it is closed.
C16_Witness ==
  /\ lastSel.act = "Escape" /\ lastSel.wasOpen
  /\ ~isOpen /\ query = <<>> /\ Len(selection) > 0

\* C17: the click on a suggestion row of the open selector calls onSelect for its tag
\* when the row was rendered unselected and onDeselect when it was rendered selected,
\* and nothing else; the selector stays open, the query is cleared, the text input has
\* the focus.
C17_ToggleKeepsOpen ==
  [][(lastSel'.act = "toggle" /\ isOpen) =>
       /\ Len(lastSel'.calls) = 1
       /\ \E i \in 1 .. Len(suggested.rows) :
            /\ suggested.rows[i].tag = lastSel'.calls[1].tag
            /\ lastSel'.calls[1].op = IF suggested.rows[i].selected THEN "deselect"
                                      ELSE "select"
       /\ isOpen' /\ query' = <<>> /\ focus' = "input"]_vars

\* C17 witness: the row of a selected tag was clicked: onDeselect was called, the tag is
\* out of the selection, the selector is open with no query and the input focused.
C17_Witness ==
  /\ lastSel.act = "toggle" /\ Len(lastSel.calls) = 1
  /\ lastSel.calls[1].op = "deselect"
  /\ \A i \in 1 .. Len(selection) : selection[i] # lastSel.calls[1].tag
  /\ isOpen /\ query = <<>> /\ focus = "input"

\* C18 (as stated): with an empty text the tag editor renders no create option, and with
\* an empty query the open tag selector renders none either, whatever the catalog.
C18_NoCreateOptionForEmptyQuery ==
  /\ (isToolbarTagPopoverOpen /\ Len(shown.text) = 0) => ~CreateOption(shown.text)
  /\ (~isToolbarTagPopoverOpen /\ isOpen /\ Len(query) = 0) => ~suggested.createOption

\* C19 (as stated): for ArrowLeft or ArrowRight in the text input of the tag editor, with
\* Shift the default action is not prevented; without Shift the propagation is stopped.
C19_UnshiftedArrowsSwallowed ==
  last.act \in {"ArrowLeft", "ArrowRight"} =>
    IF last.shiftKey THEN ~last.defaultPrevented ELSE last.propagationStopped

\* C19 (amended): with Shift the handler stops the propagation and does not prevent the
\* default action; without Shift it prevents the default action and does not stop the
\* propagation.
C19_ArrowsByShift ==
  last.act \in {"ArrowLeft", "ArrowRight"} =>
    IF last.shiftKey
    THEN last.propagationStopped /\ ~last.defaultPrevented
    ELSE last.defaultPrevented /\ ~last.propagationStopped

\* C19 witness: ArrowLeft without Shift in the open tag editor: the default action is
\* prevented and the propagation goes on.
C19_Witness ==
  /\ isToolbarTagPopoverOpen /\ last.act = "ArrowLeft" /\ ~last.shiftKey
  /\ last.defaultPrevented /\ ~last.propagationStopped

\* C20 (as stated): the closed tag selector has an empty query.
C20_ClosedHasEmptyQuery == ~isOpen => query = <<>>

\* C21: right after a toggle or a removeTag with files selected, the tag acted on is on
\* every selected file (a toggle that adds) or on none (a toggle that removes, a
\* removeTag): never on some of them only.
C21_NeverPartialAfterAction ==
  (last.act \in {"toggle", "remove"} /\ SelectionSize >= 1) =>
    /\ CountNow(last.tag) \in {0, SelectionSize}
    /\ \A f \in fileSelection :
         last.tag \in files[f] <=> (last.act = "toggle" /\ ~last.isSelected)

\* C21 witness: removeTag on a tag that one of two selected files carried; none does now.
C21_Witness ==
  /\ last.act = "remove" /\ SelectionSize = 2 /\ last.before = 1
  /\ CountNow(last.tag) = 0
====
